---- MODULE Spec2Model ----
(***************************************************************************)
(* A model of rust-types: the Result container (result.ts) and the Option  *)
(* container (option.ts).  A caller creates containers through the public  *)
(* factories, calls their methods and observes what each call returns or   *)
(* throws.  JavaScript values are records [t, n, s]: t is the kind of the  *)
(* value, n its number, s its string (or the message of an Error object).  *)
(***************************************************************************)
EXTENDS Integers, Sequences, FiniteSets

VARIABLES
    result,   \* <<>> or <<r>>: the Result instance the caller holds; the
              \* caller keeps one container at a time, a Result or an Option
    made,     \* how that Result was obtained: [by, given]
    option,   \* <<>> or <<o>>: the Option instance the caller holds
    wrapped,  \* <<>> or <<x>>: the argument that was given to Option.wrap
    wa,       \* the Result.wrapAsync call in flight
    last      \* the most recent method call and its completion

vars == <<result, made, option, wrapped, wa, last>>

----------------------------------------------------------------------------
(* JavaScript values *)

MaxNum == 1

JSValue(t, n, s) == [t |-> t, n |-> n, s |-> s]

Undefined == JSValue("undefined", 0, "")
Null == JSValue("null", 0, "")
Num(k) == JSValue("number", k, "")
Str(s) == JSValue("string", 0, s)
Bool(b) == JSValue("boolean", IF b THEN 1 ELSE 0, "")
NewError(message) == JSValue("Error", 0, message)
TypeError(message) == JSValue("TypeError", 0, message)

\* A symbol: n is its identity, s its description.
\* const EMPTY = Symbol("EMPTY"): a symbol the module does not export
EMPTY == JSValue("symbol", 0, "EMPTY")

\* Symbol("EMPTY") evaluated by the caller: another symbol, same description
CallerSymbol == JSValue("symbol", 1, "EMPTY")

Numbers == (0 .. MaxNum) \cup {42}
Strings == {"", "bad"}
Messages == {"", "failed"}

\* The values a caller can supply as a payload, a default or a failure: any
\* value but EMPTY, which the module keeps to itself.
Payloads ==
    {Undefined, Null, CallerSymbol}
        \cup {Num(k) : k \in Numbers}
        \cup {Str(s) : s \in Strings}
        \cup {NewError("ENOENT")}

(* Completions: how a call ends *)
Return(v) == [kind |-> "return", val |-> v]
Throw(v) == [kind |-> "throw", val |-> v]

\* A zero-argument synchronous callback, by the completion of its invocation
Callbacks == {Return(v) : v \in Payloads} \cup {Throw(f) : f \in Payloads}

Digit(d) ==
    CASE d = 0 -> "0" [] d = 1 -> "1" [] d = 2 -> "2" [] d = 3 -> "3"
      [] d = 4 -> "4" [] d = 5 -> "5" [] d = 6 -> "6" [] d = 7 -> "7"
      [] d = 8 -> "8" [] d = 9 -> "9"

RECURSIVE NumberToString(_)
NumberToString(k) ==
    IF k < 10 THEN Digit(k) ELSE NumberToString(k \div 10) \o Digit(k % 10)

\* The conversion a template literal `${v}` applies to v
TemplateString(v) ==
    CASE v.t = "undefined" -> Return("undefined")
      [] v.t = "null" -> Return("null")
      [] v.t = "number" -> Return(NumberToString(v.n))
      [] v.t = "boolean" -> Return(IF v.n = 1 THEN "true" ELSE "false")
      [] v.t = "string" -> Return(v.s)
      [] v.t \in {"Error", "TypeError"} ->
            Return(IF v.s = "" THEN v.t ELSE v.t \o ": " \o v.s)
      [] v.t = "symbol" ->
            Throw(TypeError("Cannot convert a Symbol value to a string"))

----------------------------------------------------------------------------
(* class Result<T, E> *)

\* constructor({ value, error })
Result(value, error) == [value |-> value, error |-> error]

\* get ok()
ok(r) == r.value

\* get err()
err(r) == r.error

\* isOk, isErr: the slot is compared with EMPTY; the variants compare it with
\* undefined, which a payload can be.
isOk_undefinedSentinel(r) == r.value # Undefined
isOk(r) == r.value # EMPTY

isErr_undefinedSentinel(r) == r.error # Undefined
isErr(r) == r.error # EMPTY

\* unwrapOr(other); the variant decides on the value slot being undefined
unwrapOr_checksValue(r, other) ==
    IF r.value = Undefined THEN Return(other) ELSE Return(r.value)
unwrapOr(r, other) ==
    IF r.error # EMPTY THEN Return(other) ELSE Return(r.value)

\* expect(msg)
expect(r, msg) ==
    IF r.error # EMPTY
    THEN LET s == TemplateString(r.error)
         IN  IF s.kind = "throw"
             THEN s
             ELSE Throw(NewError(msg \o " - " \o s.val))
    ELSE Return(r.value)

\* static wrap(callback): callback is the completion of callback(); the
\* variant has no catch block
wrap_rethrows(callback) ==
    IF callback.kind = "return"
    THEN Return(Result(callback.val, EMPTY))
    ELSE Throw(callback.val)
wrap(callback) ==
    IF callback.kind = "return"
    THEN Return(Result(callback.val, EMPTY))
    ELSE Return(Result(EMPTY, callback.val))

\* export function Ok(value)
Ok(value) == Result(value, EMPTY)

\* export function Err(error)
Err(error) == Result(EMPTY, error)

(* static async wrapAsync(callback) *)

Pending == [state |-> "pending", val |-> <<>>]
Fulfilled(v) == [state |-> "fulfilled", val |-> <<v>>]
Rejected(f) == [state |-> "rejected", val |-> <<f>>]

\* the catch block: the promise of wrapAsync once a failure f is caught; the
\* variant lets f reject the promise
wrapAsyncCatch_propagates(f) == Rejected(f)
wrapAsyncCatch(f) == Fulfilled(Result(EMPTY, f))

\* the continuation after `await callback()`, q the settled promise
wrapAsyncAwaited(q) ==
    IF q.state = "fulfilled"
    THEN Fulfilled(Result(q.val[1], EMPTY))
    ELSE wrapAsyncCatch(q.val[1])

----------------------------------------------------------------------------
(* class Option<T> *)

\* constructor(value)
Option(value) == [value |-> value]

\* static wrap(value)
OptionWrap(value) == Option(value)

isSome(o) == o.value # Undefined

isNone(o) == o.value = Undefined

\* get some()
some(o) ==
    IF o.value = Undefined \/ o.value = Null
    THEN Throw(NewError("Option is None"))
    ELSE Return(o.value)

\* expect(msg); the variant tests undefined only, as isSome and isNone do
OptionExpect_undefinedOnly(o, msg) ==
    IF o.value = Undefined
    THEN Throw(NewError(msg \o " - Option is None"))
    ELSE Return(o.value)
OptionExpect(o, msg) ==
    IF o.value = Undefined \/ o.value = Null
    THEN Throw(NewError(msg \o " - Option is None"))
    ELSE Return(o.value)

----------------------------------------------------------------------------
(* The caller *)

NoCall == [op |-> "none", msg |-> "", arg |-> Undefined, out |-> Return(Undefined)]
Call(op, msg, arg, out) == [op |-> op, msg |-> msg, arg |-> arg, out |-> out]

NotMade == [by |-> "none", given |-> Return(Undefined)]
Made(by, given) == [by |-> by, given |-> given]

Idle == [pc |-> "idle", cb |-> "none", q |-> Pending, p |-> Pending,
         settles |-> 0, resumes |-> 0]

Init ==
    /\ result = <<>>
    /\ made = NotMade
    /\ option = <<>>
    /\ wrapped = <<>>
    /\ wa = Idle
    /\ last = NoCall

\* const r = Ok(v)
CallOk(v) ==
    /\ result' = <<Ok(v)>>
    /\ made' = Made("Ok", Return(v))
    /\ last' = NoCall
    /\ option' = <<>>
    /\ wrapped' = <<>>
    /\ UNCHANGED wa

\* const r = Err(e)
CallErr(e) ==
    /\ result' = <<Err(e)>>
    /\ made' = Made("Err", Return(e))
    /\ last' = NoCall
    /\ option' = <<>>
    /\ wrapped' = <<>>
    /\ UNCHANGED wa

\* const r = Result.wrap(callback); a failure that escapes leaves no Result
CallWrap(callback) ==
    LET c == wrap(callback)
    IN  /\ result' = IF c.kind = "return" THEN <<c.val>> ELSE <<>>
        /\ made' = Made(IF c.kind = "return" THEN "wrap" ELSE "wrapEscaped", callback)
        /\ last' = NoCall
        /\ option' = <<>>
        /\ wrapped' = <<>>
        /\ UNCHANGED wa

\* const r = new Result({ value, error })
CallNew(value, error) ==
    /\ result' = <<Result(value, error)>>
    /\ made' = Made("new", Return(value))
    /\ last' = NoCall
    /\ option' = <<>>
    /\ wrapped' = <<>>
    /\ UNCHANGED wa

\* Result.wrapAsync(callback) up to its first suspension: callback() either
\* throws synchronously, which the catch block handles at once, or returns a
\* promise on which the function suspends.
WrapAsyncCall(throws, f) ==
    /\ wa.pc \in {"idle", "delivered"}
    /\ wa' = IF throws
             THEN [pc |-> "done", cb |-> "throw", q |-> Rejected(f),
                   p |-> wrapAsyncCatch(f), settles |-> 1, resumes |-> 0]
             ELSE [pc |-> "awaiting", cb |-> "promise", q |-> Pending,
                   p |-> Pending, settles |-> 0, resumes |-> 0]
    /\ UNCHANGED <<result, made, option, wrapped, last>>

\* the callback's computation resolves with v
CallbackResolve(v) ==
    /\ wa.pc = "awaiting"
    /\ wa.q.state = "pending"
    /\ wa' = [wa EXCEPT !.q = Fulfilled(v)]
    /\ UNCHANGED <<result, made, option, wrapped, last>>

\* the callback's computation rejects with f
CallbackReject(f) ==
    /\ wa.pc = "awaiting"
    /\ wa.q.state = "pending"
    /\ wa' = [wa EXCEPT !.q = Rejected(f)]
    /\ UNCHANGED <<result, made, option, wrapped, last>>

\* wrapAsync resumes after the await and settles its own promise
WrapAsyncResume ==
    /\ wa.pc = "awaiting"
    /\ wa.q.state # "pending"
    /\ wa' = [wa EXCEPT !.pc = "done",
                        !.p = wrapAsyncAwaited(wa.q),
                        !.settles = @ + 1]
    /\ UNCHANGED <<result, made, option, wrapped, last>>

\* const r = await Result.wrapAsync(...): the caller resumes with the Result
AwaitDeliver ==
    /\ wa.pc = "done"
    /\ wa.p.state = "fulfilled"
    /\ wa' = [wa EXCEPT !.pc = "delivered", !.resumes = @ + 1]
    /\ result' = <<wa.p.val[1]>>
    /\ made' = Made("wrapAsync",
                    [kind |-> IF wa.cb = "throw" THEN "throw"
                              ELSE IF wa.q.state = "fulfilled" THEN "resolve"
                              ELSE "reject",
                     val |-> wa.q.val[1]])
    /\ last' = NoCall
    /\ option' = <<>>
    /\ wrapped' = <<>>

Observe(c) ==
    /\ last' = c
    /\ UNCHANGED <<result, made, option, wrapped, wa>>

CallIsOk ==
    /\ result # <<>>
    /\ Observe(Call("isOk", "", Undefined, Return(Bool(isOk(result[1])))))

CallIsErr ==
    /\ result # <<>>
    /\ Observe(Call("isErr", "", Undefined, Return(Bool(isErr(result[1])))))

GetOk ==
    /\ result # <<>>
    /\ Observe(Call("ok", "", Undefined, Return(ok(result[1]))))

GetErr ==
    /\ result # <<>>
    /\ Observe(Call("err", "", Undefined, Return(err(result[1]))))

CallExpect(msg) ==
    /\ result # <<>>
    /\ Observe(Call("expect", msg, Undefined, expect(result[1], msg)))

CallUnwrapOr(other) ==
    /\ result # <<>>
    /\ Observe(Call("unwrapOr", "", other, unwrapOr(result[1], other)))

\* const o = Option.wrap(x)
CallOptionWrap(x) ==
    /\ option' = <<OptionWrap(x)>>
    /\ wrapped' = <<x>>
    /\ last' = NoCall
    /\ result' = <<>>
    /\ made' = NotMade
    /\ UNCHANGED wa

CallIsSome ==
    /\ option # <<>>
    /\ Observe(Call("isSome", "", Undefined, Return(Bool(isSome(option[1])))))

CallIsNone ==
    /\ option # <<>>
    /\ Observe(Call("isNone", "", Undefined, Return(Bool(isNone(option[1])))))

GetSome ==
    /\ option # <<>>
    /\ Observe(Call("some", "", Undefined, some(option[1])))

CallOptionExpect(msg) ==
    /\ option # <<>>
    /\ Observe(Call("Option.expect", msg, Undefined, OptionExpect(option[1], msg)))

Next ==
    \/ \E v \in Payloads : CallOk(v)
    \/ \E e \in Payloads : CallErr(e)
    \/ \E callback \in Callbacks : CallWrap(callback)
    \/ \E throws \in BOOLEAN, f \in Payloads : WrapAsyncCall(throws, f)
    \/ \E v \in Payloads : CallbackResolve(v)
    \/ \E f \in Payloads : CallbackReject(f)
    \/ WrapAsyncResume
    \/ AwaitDeliver
    \/ CallIsOk
    \/ CallIsErr
    \/ GetOk
    \/ GetErr
    \/ \E msg \in Messages : CallExpect(msg)
    \/ \E other \in Payloads : CallUnwrapOr(other)
    \/ \E x \in Payloads : CallOptionWrap(x)
    \/ CallIsSome
    \/ CallIsNone
    \/ GetSome
    \/ \E msg \in Messages : CallOptionExpect(msg)

Spec == Init /\ [][Next]_vars

\* The same caller, who may also call the exported class constructor.
NextCtor ==
    \/ Next
    \/ \E value \in Payloads, error \in Payloads : CallNew(value, error)

SpecCtor == Init /\ [][NextCtor]_vars

\* The event loop runs every continuation whose awaited promise has settled.
FairSpec == Spec /\ WF_vars(WrapAsyncResume)

----------------------------------------------------------------------------
(* Properties *)

R == result[1]
O == option[1]
X == wrapped[1]
True == Return(Bool(TRUE))
False == Return(Bool(FALSE))
Absent(x) == x = Undefined \/ x = Null

\* C1: Ok(v), for every v including undefined and null, is a Result whose
\* isOk() is true, whose isErr() is false and whose ok accessor returns v.
C1_OkIsSuccess ==
    made.by = "Ok" =>
        /\ result # <<>>
        /\ isOk(R) /\ ~isErr(R) /\ ok(R) = made.given.val
        /\ last.op = "isOk" => last.out = True
        /\ last.op = "isErr" => last.out = False
        /\ last.op = "ok" => last.out = Return(made.given.val)

C1_Witness ==
    /\ made = Made("Ok", Return(Undefined))
    /\ last.op = "isOk" /\ last.out = True

\* C2: Err(e), for every e including undefined and null, is a Result whose
\* isErr() is true, whose isOk() is false and whose err accessor returns e.
C2_ErrIsError ==
    made.by = "Err" =>
        /\ result # <<>>
        /\ isErr(R) /\ ~isOk(R) /\ err(R) = made.given.val
        /\ last.op = "isErr" => last.out = True
        /\ last.op = "isOk" => last.out = False
        /\ last.op = "err" => last.out = Return(made.given.val)

C2_Witness ==
    /\ made = Made("Err", Return(Undefined))
    /\ last.op = "isErr" /\ last.out = True

\* C3: Result.wrap(callback) always returns normally; when the callback
\* returned r the Result equals Ok(r), when it threw f the Result equals
\* Err(f), for f of any kind.
C3_WrapCapturesFailure ==
    /\ made.by # "wrapEscaped"
    /\ made.by = "wrap" =>
        /\ result # <<>>
        /\ made.given.kind = "return" =>
            /\ R = Ok(made.given.val)
            /\ isOk(R) /\ ok(R) = made.given.val
        /\ made.given.kind = "throw" =>
            /\ R = Err(made.given.val)
            /\ isErr(R) /\ ~isOk(R) /\ err(R) = made.given.val

C3_Witness ==
    /\ made = Made("wrap", Throw(Undefined))
    /\ last.op = "isErr" /\ last.out = True

WrapAsyncSettled == wa.pc \in {"done", "delivered"}

\* What every state of a wrapAsync call satisfies: its promise is never
\* rejected, settles at most once and, once settled, holds Ok(v) when the
\* computation resolved with v and Err(f) when it rejected with f or the
\* callback threw f; the caller resumes at most once, with that Result.
C4_WrapAsyncSafety ==
    /\ wa.p.state # "rejected"
    /\ wa.settles <= 1 /\ wa.resumes <= 1
    /\ (wa.p.state = "pending") = (wa.settles = 0)
    /\ WrapAsyncSettled =>
        /\ wa.settles = 1
        /\ wa.q.state = "fulfilled" => wa.p = Fulfilled(Ok(wa.q.val[1]))
        /\ wa.q.state = "rejected" => wa.p = Fulfilled(Err(wa.q.val[1]))
    /\ wa.pc = "delivered" => wa.resumes = 1
    /\ made.by = "wrapAsync" =>
        /\ result # <<>>
        /\ isOk(R) = ~isErr(R)
        /\ made.given.kind = "resolve" => isOk(R) /\ ok(R) = made.given.val
        /\ made.given.kind \in {"reject", "throw"} =>
            isErr(R) /\ err(R) = made.given.val

\* C4: when the callback's computation settles, the promise of wrapAsync
\* settles, exactly once and by fulfilment, never by rejection, with Ok(v)
\* or Err(f) according to how the computation ended.
C4_WrapAsyncFulfils ==
    /\ []C4_WrapAsyncSafety
    /\ (wa.pc = "awaiting" /\ wa.q.state # "pending") ~> WrapAsyncSettled

C4_Witness ==
    /\ made.by = "wrapAsync" /\ made.given.kind = "reject"
    /\ wa.pc = "delivered" /\ wa.settles = 1 /\ wa.resumes = 1
    /\ last.op = "isErr" /\ last.out = True

\* String(v): the string rendering of a value
Rendering(v) ==
    IF v.t = "symbol"
    THEN "Symbol(" \o v.s \o ")"
    ELSE TemplateString(v).val

\* C5: Result.expect(msg) returns the held success value when the Result is
\* a success; when it is an error it throws an Error whose message is msg,
\* then " - ", then the string rendering of the held error; it throws in no
\* other case.
C5_ExpectContract ==
    (result # <<>> /\ last.op = "expect") =>
        /\ isOk(R) => last.out = Return(ok(R))
        /\ isErr(R) =>
            last.out = Throw(NewError(last.msg \o " - " \o Rendering(err(R))))
        /\ last.out.kind = "throw" => isErr(R)

\* What expect does on every Result: an error that a template literal can
\* convert gives the Error "msg - rendering"; an error that is a symbol
\* gives the TypeError of the conversion.
ExpectOnEveryError ==
    (result # <<>> /\ last.op = "expect") =>
        /\ isOk(R) => last.out = Return(ok(R))
        /\ (isErr(R) /\ err(R).t # "symbol") =>
            last.out = Throw(NewError(last.msg \o " - " \o Rendering(err(R))))
        /\ (isErr(R) /\ err(R).t = "symbol") => last.out.val.t = "TypeError"
        /\ last.out.kind = "throw" => isErr(R)

ExpectOnEveryErrorWitness ==
    /\ result = <<Err(Str("bad"))>>
    /\ last.op = "expect" /\ last.msg = "failed"
    /\ last.out = Throw(NewError("failed - bad"))

C7_WrapAbsence ==
    option # <<>> =>
        /\ isNone(O) = Absent(X)
        /\ isSome(O) = ~Absent(X)
        /\ last.op = "isNone" => last.out = Return(Bool(Absent(X)))
        /\ last.op = "isSome" => last.out = Return(Bool(~Absent(X)))

\* C8: Option.wrap(x).expect(msg) throws an Error with message msg followed
\* by " - Option is None" when x is undefined or null, and returns the very
\* x that was wrapped for every other x.
C8_OptionExpectRoundTrip ==
    (option # <<>> /\ last.op = "Option.expect") =>
        IF Absent(X)
        THEN last.out = Throw(NewError(last.msg \o " - Option is None"))
        ELSE last.out = Return(X)

C8_Witness ==
    /\ wrapped = <<Null>>
    /\ last.op = "Option.expect" /\ last.msg = "failed"
    /\ last.out = Throw(NewError("failed - Option is None"))

\* C9: every Result obtained through Ok, Err, Result.wrap, Result.wrapAsync
\* or the exported constructor holds exactly one of a success value and an
\* error value: isOk() = not isErr().
C9_ExactlyOne ==
    result # <<>> =>
        /\ isOk(R) = ~isErr(R)
        /\ last.op = "isOk" => last.out = Return(Bool(~isErr(R)))
        /\ last.op = "isErr" => last.out = Return(Bool(~isOk(R)))

\* C10: isSome() guards extraction: when isSome() is true both .some and
\* expect(msg) return the stored value without throwing, and when isNone()
\* is true expect(msg) throws.
C10_PresenceGuardsExtraction ==
    (option # <<>> /\ last.op \in {"some", "Option.expect"}) =>
        /\ isSome(O) => last.out = Return(O.value)
        /\ (isNone(O) /\ last.op = "Option.expect") => last.out.kind = "throw"

====
